---- MODULE Spec2Model ----
(***************************************************************************)
(* Training control loop of the Tacotron synthesizer                       *)
(* (synthesizer_pt/train.py, configured by synthesizer/hparams.py).        *)
(*                                                                         *)
(* The model follows train(): construction of model and optimizer, the     *)
(* weight-loading phase, the loop over hp.tts_schedule, the epoch loop and *)
(* the per-batch body with its two checkpoint cadences.  Numeric tensors   *)
(* are abstracted: the model parameters and the optimizer moments are      *)
(* represented by the number of optimizer updates they have absorbed.      *)
(* Learning rates are identifiers (1 stands for 1e-3, 2 for 3e-4).         *)
(* The environment contributes the number of CUDA devices, damage to the   *)
(* weights file between two calls, the gradient norm of a batch and the    *)
(* failure of a diagnostic export.                                         *)
(*                                                                         *)
(* A second part follows the inference driver, class Synthesizer of        *)
(* synthesizer_pt/inference.py, and the generation loop of the Tacotron    *)
(* model it drives.                                                        *)
(***************************************************************************)
EXTENDS Integers, Sequences, FiniteSets, TLC

(***************************************************************************)
(* Bounds of the explored input space.                                     *)
(***************************************************************************)
MaxSessions == 2
MaxThreshold == 3
MaxDataset == 2
MaxBatchSize == 1
MaxTrainSteps == 2
MaxEvery == 2
MaxRuns == 2
MaxGpus == 2
MaxTexts == 2
MaxCalls == 2
MaxDecoderSteps == 3

(***************************************************************************)
(* Program constants.                                                      *)
(***************************************************************************)
StepsPerK == 1000

\* The r and lr columns of hparams.tts_schedule, row by row: r = 7, 6, 5, 4,
\* 3, 2 and lr = 1e-3 for the first row, 3e-4 for the others.
ScheduleR(k) == 8 - k
ScheduleLr(k) == IF k = 1 THEN 1 ELSE 2

\* hparams.tts_eval_interval and hparams.tts_eval_num_samples
DefaultEvalInterval == 2000
tts_eval_num_samples == 1

\* hp.tts_clip_grad_norm is not None: hparams sets it to 1.0
ClipGradNormSet == TRUE

\* Values of hp.tts_eval_interval explored besides the default.
EvalIntervals == {-1, 0, 1, 2}

\* What clip_grad_norm_ may return for a batch.
GradNorms == {"finite", "nan", "inf"}

\* Number of rows of hparams.tts_schedule.
ScheduleRows == 6

\* hparams.tts_stop_threshold = -3.4, in tenths.
StopThreshold == -34

\* Largest value, in tenths, of the r frames a scripted decoder emits at a step.
GroupValues == {-40, -34, -30}

\* model.r of a freshly constructed Tacotron, before train() assigns it, and
\* the learning rate of a freshly constructed Adam optimizer.
UnsetR == 0
DefaultLr == 1

VARIABLES
    schedule,       \* hp.tts_schedule: sequence of [r, lr, max_step, batch_size]
    datasetSize,    \* len(dataset)
    save_every, backup_every, train_steps, force_restart,   \* arguments of train()
    n_gpus,         \* torch.cuda.device_count(); 0: CUDA is not available
    tts_eval_interval,  \* hp.tts_eval_interval
    faults,         \* environment faults that may occur: subset of {"grad", "eval"}
    outcome,        \* "none", "running", "returned" or the exception raised
    pc,             \* position in train(): "idle", "load", "session", "batch"
    model,          \* [step, params, r] of the Tacotron instance
    optimizer,      \* [lr, state] of the Adam instance
    latest,         \* file at weights_fpath
    backups,        \* files at the backup paths, by the k of "<run_id>_<k>k.pt"
    sess_i,         \* index of the session of the schedule loop (1-based)
    batch_size,     \* batch size of the session's DataLoader
    epochs, epoch,  \* epoch loop
    batch_i,        \* index of the next batch of the epoch (1-based)
    runs,           \* number of train() calls made so far
    startStep,      \* history: model step when the schedule loop was entered
    restored,       \* history: the file restored by this call (NoFile if none)
    nbatches,       \* history: batches trained by this call
    lastBatch,      \* history: the settings under which the last batch ran
    backupLog,      \* history: <<k, step>> of every backup written by this call
    lastLoop,       \* history: the last loop step (batch or epoch end) and its evaluation
    line,           \* the statement of the batch body to run next ("top": the for)
    grads,          \* the gradients held by the parameters
    ops,            \* history: the statements run so far in the current batch
    interruptedAt,  \* history: where the last interruption hit ("none": never)
    synth,          \* the Synthesizer object and the result of the last call on it
    gen             \* a run of the generation loop of the model

vars == <<schedule, datasetSize, save_every, backup_every, train_steps,
          force_restart, pc, model, optimizer, latest, backups, sess_i,
          batch_size, epochs, epoch, batch_i, runs, startStep, restored,
          nbatches, lastBatch, backupLog, n_gpus, tts_eval_interval, faults,
          outcome, lastLoop, line, grads, ops, interruptedAt, synth, gen>>

synthvars == <<synth, gen>>

trainvars == <<schedule, datasetSize, save_every, backup_every, train_steps,
               force_restart, pc, model, optimizer, latest, backups, sess_i,
               batch_size, epochs, epoch, batch_i, runs, startStep, restored,
               nbatches, lastBatch, backupLog, n_gpus, tts_eval_interval,
               faults, outcome, lastLoop, line, grads, ops, interruptedAt>>

config == <<schedule, datasetSize, save_every, backup_every, train_steps,
            n_gpus, tts_eval_interval, faults>>
loopvars == <<sess_i, batch_size, epochs, epoch, batch_i>>
history == <<startStep, restored, nbatches, lastBatch, backupLog, lastLoop>>
bodyvars == <<line, grads, ops>>

(***************************************************************************)
(* Schedules: the leading rows of hparams.tts_schedule, (r, lr, max_step,   *)
(* batch_size), with the thresholds and batch sizes scaled down; the       *)
(* thresholds are strictly increasing.                                     *)
(***************************************************************************)
Rows == [r : {ScheduleR(k) : k \in 1..MaxSessions},
         lr : {ScheduleLr(k) : k \in 1..MaxSessions},
         max_step : 1..MaxThreshold, batch_size : 1..MaxBatchSize]

Schedules ==
    {s \in UNION {[1..n -> Rows] : n \in 1..MaxSessions} :
        /\ \A k \in DOMAIN s : s[k].r = ScheduleR(k) /\ s[k].lr = ScheduleLr(k)
        /\ \A k \in DOMAIN s : k > 1 => s[k-1].max_step < s[k].max_step}

(***************************************************************************)
(* Checkpoint files.  sess and r are history fields: the schedule position *)
(* in effect when the file was written (0 when written before the loop).   *)
(***************************************************************************)
NoFile == [exists |-> FALSE, corrupt |-> FALSE, step |-> 0, params |-> 0,
           hasOpt |-> FALSE, opt |-> 0, sess |-> 0, r |-> 0]

\* Tacotron.save(path, optimizer=None): model state (parameters and the step
\* buffer) and, when an optimizer is passed, the optimizer state.
ModelSave(m, o, withOptimizer, s) ==
    [exists |-> TRUE, corrupt |-> FALSE, step |-> m.step, params |-> m.params,
     hasOpt |-> withOptimizer, opt |-> IF withOptimizer THEN o.state ELSE 0,
     sess |-> s, r |-> IF s = 0 THEN 0 ELSE m.r]

\* Tacotron.load(path, optimizer): restores parameters and step.
ModelLoad(m, f) == [m EXCEPT !.step = f.step, !.params = f.params]

\* ... and the optimizer state when the file holds one.
OptimizerLoad(o, f) == IF f.hasOpt THEN [o EXCEPT !.state = f.opt] ELSE o

\* Tacotron.load on a file that cannot be read raises.
LoadFails(f) == f.corrupt

\* Tacotron.forward advances the step buffer by one.
Forward(m) == [m EXCEPT !.step = m.step + 1]

\* Tacotron.get_step()
GetStep(m) == m.step

\* optimizer.step(): one update of the parameters and of the moments.
ApplyUpdate(m) == [m EXCEPT !.params = m.params + 1]
OptimizerStep(o) == [o EXCEPT !.state = o.state + 1]

(***************************************************************************)
(* Conditions and quantities computed by train().                          *)
(***************************************************************************)
\* Variant that tests the divisibility the wrong way round.
BatchSizeErrorSwapped(sched, gpus) ==
    /\ gpus > 0
    /\ \E k \in DOMAIN sched : gpus % sched[k].batch_size # 0

\* if torch.cuda.is_available(): for session in hp.tts_schedule:
\*     if batch_size % torch.cuda.device_count() != 0: raise ValueError
BatchSizeError(sched, gpus) ==
    /\ gpus > 0
    /\ \E k \in DOMAIN sched : sched[k].batch_size % gpus # 0

\* Variant that ignores force_restart.
StartFreshUnforced(force, exists) == ~exists

\* Variant with the existence test not negated.
StartFreshInverted(force, exists) == force \/ exists

\* if force_restart or not weights_fpath.exists():
StartFresh(force, exists) == force \/ ~exists

\* Variant with a strict comparison.
SessionExhaustedStrict(current_step, max_step) == current_step > max_step

\* if current_step >= max_step:
SessionExhausted(current_step, max_step) == current_step >= max_step

\* if i == len(hp.tts_schedule)-1:
IsLastSession(k, sched) == k = Len(sched)

\* epochs = train_steps // total_iters + 1
Epochs(steps, total_iters) == (steps \div total_iters) + 1

\* len(data_loader): number of minibatches of one epoch
LenDataLoader(total, bs) == (total + bs - 1) \div bs

\* k = step // 1000, the tag of the backup file name
BackupTag(step) == step \div StepsPerK

\* if backup_every != 0 and step % backup_every == 0
BackupDue(every, step) == every # 0 /\ step % every = 0

\* Variant that tests the backup cadence instead of its own.
SaveDueOnBackupCadence(every, step) ==
    backup_every # 0 /\ step % backup_every = 0

\* Variant that saves one step early.
SaveDueOneStepEarly(every, step) == every # 0 /\ (step + 1) % every = 0

\* if save_every != 0 and step % save_every == 0
SaveDue(every, step) == every # 0 /\ step % every = 0

WriteFile(dir, name, f) ==
    [n \in (DOMAIN dir) \cup {name} |-> IF n = name THEN f ELSE dir[n]]

\* if hp.tts_clip_grad_norm is not None: ... if np.isnan(grad_norm): print
GradNormReported(g) == ClipGradNormSet /\ g = "nan"

\* Variant that evaluates at the epoch ends when the interval is -1.
EvalAtEpochEndOnMinusOne(interval) == interval = -1

\* if hp.tts_eval_interval == 0:   (after the batches of an epoch)
EvalAtEpochEnd(interval) == interval = 0

\* if hp.tts_eval_interval > 0 and step % hp.tts_eval_interval == 0:
EvalInBatchDue(interval, step) == interval > 0 /\ step % interval = 0

\* len(x): the size of minibatch b of an epoch
BatchLen(total, bs, b) ==
    IF total - (b - 1) * bs < bs THEN total - (b - 1) * bs ELSE bs

\* for sample_idx in range(hp.tts_eval_num_samples):
\*     if sample_idx + 1 <= len(x): eval_model(...)
EvalCalls(lenx) ==
    IF tts_eval_num_samples < lenx THEN tts_eval_num_samples ELSE lenx

NoBatch == [valid |-> FALSE, startStep |-> 0, sess |-> 0, r |-> 0, lr |-> 0,
            batch_size |-> 0, grad_norm |-> "finite", reported |-> FALSE,
            paramsBefore |-> 0]

\* The gradients of a model that has not run a backward pass.
NoGrads == [state |-> "none", norm |-> "finite"]

\* Variant of the batch body that steps the optimizer before clipping.
BodyOrderStepBeforeClip ==
    <<"forward", "loss", "zero_grad", "backward", "optimizer_step",
      "clip_grad_norm", "backup", "save", "eval", "log">>

\* Variant of the batch body that writes the checkpoints before the
\* optimizer step.
BodyOrderSaveBeforeStep ==
    <<"forward", "loss", "zero_grad", "backward", "clip_grad_norm", "backup",
      "save", "optimizer_step", "eval", "log">>

\* The statements of the batch body, in the order of the source.
BodyOrder ==
    <<"forward", "loss", "zero_grad", "backward", "clip_grad_norm",
      "optimizer_step", "backup", "save", "eval", "log">>

\* The statement that follows statement l; after the last one, the for.
NextLine(l) ==
    LET k == CHOOSE n \in DOMAIN BodyOrder : BodyOrder[n] = l
    IN  IF k = Len(BodyOrder) THEN "top" ELSE BodyOrder[k + 1]

NoLoop == [kind |-> "none", eval |-> FALSE, failed |-> FALSE]

(***************************************************************************)
(* The Synthesizer object: the attributes set on self, the value of        *)
(* self._model, and the outcome of the last method call.                   *)
(***************************************************************************)
NoCall == [op |-> "none", outcome |-> "none", n |-> 0, nspecs |-> 0,
           alignments |-> FALSE]

NoSynth == [constructed |-> FALSE, attrs |-> {}, model |-> "none",
            low_mem |-> FALSE, r |-> 0, loads |-> 0, requests |-> 0,
            last |-> NoCall]

NoGen == [state |-> "INITIAL", r |-> 0, max_frames |-> 0, script |-> <<>>,
          steps |-> 0, frames |-> 0]

\* Synthesizer.is_loaded: return self._model is not None
IsLoaded(obj) == obj.model # "none"

\* Synthesizer.load: the first statement that raises, if any.
\*   if self._low_mem: raise Exception(...)
\*   self._model = Tacotron(...)
\*   self._model.load(self.model_path)
LoadOutcome(obj) ==
    IF "_low_mem" \notin obj.attrs THEN "AttributeError"
    ELSE IF obj.low_mem THEN "Exception"
    ELSE IF "model_path" \notin obj.attrs THEN "AttributeError"
    ELSE "returned"

\* Names bound in the scope of synthesize_spectrograms when it reads
\* tts_model, speaker_embedding and alignments: its parameters, its locals
\* and the module's imports.
NamesInScope == {"self", "texts", "embeddings", "return_alignments", "inputs",
                 "tts_k", "specs", "i", "x", "m", "attention", "torch", "hp",
                 "symbols", "Paths", "Tacotron", "text_to_sequence",
                 "save_attention", "simple_table", "audio", "Path", "Union",
                 "List", "np", "librosa", "Synthesizer"}

\* Synthesizer.synthesize_spectrograms: the first statement that raises.
\*   if self._low_mem: raise NotImplementedError
\*   if not self.is_loaded(): self.load()
\*   simple_table([..., ('r', tts_model.r)])
\*   ... self._model.generate(x, speaker_embedding[i-1]) ...
\*   return (specs, alignments) if return_alignments else specs
SynthesizeOutcome(obj, n, return_alignments) ==
    IF "_low_mem" \notin obj.attrs THEN "AttributeError"
    ELSE IF obj.low_mem THEN "NotImplementedError"
    ELSE IF ~IsLoaded(obj) /\ LoadOutcome(obj) # "returned"
         THEN LoadOutcome(obj)
    ELSE IF "tts_model" \notin NamesInScope THEN "NameError"
    ELSE IF n > 0 /\ "speaker_embedding" \notin NamesInScope THEN "NameError"
    ELSE IF return_alignments /\ "alignments" \notin NamesInScope
         THEN "NameError"
    ELSE "returned"

\* The stop criterion of the generation loop: all values of the emitted
\* r-frame group are below tts_stop_threshold.
GroupBelowThresholdInclusive(groupMax) == groupMax <= StopThreshold

GroupBelowThreshold(groupMax) == groupMax < StopThreshold

\* The generation loop ends when the stop criterion fires or the emitted
\* frame count reaches the safety maximum.
GenerationEnds(groupMax, frames, max_frames) ==
    GroupBelowThreshold(groupMax) \/ frames >= max_frames

\* The state every call of train() starts from, before the first call.
Idle ==
    /\ force_restart = FALSE
    /\ pc = "idle"
    /\ outcome = "none"
    /\ model = [step |-> 0, params |-> 0, r |-> UnsetR]
    /\ optimizer = [lr |-> DefaultLr, state |-> 0]
    /\ latest = NoFile
    /\ backups = <<>>
    /\ sess_i = 1
    /\ batch_size = 0
    /\ epochs = 0
    /\ epoch = 0
    /\ batch_i = 0
    /\ runs = 0
    /\ startStep = 0
    /\ restored = NoFile
    /\ nbatches = 0
    /\ lastBatch = NoBatch
    /\ backupLog = {}
    /\ lastLoop = NoLoop
    /\ line = "top"
    /\ grads = NoGrads
    /\ ops = <<>>
    /\ interruptedAt = "none"
    /\ synth = NoSynth
    /\ gen = NoGen

(***************************************************************************)
(* Initial state: a configuration, an empty models directory, no call yet. *)
(***************************************************************************)
\* The default configuration of hparams.py on a machine without CUDA, with
\* finite gradients and working diagnostics.
Init ==
    /\ schedule \in Schedules
    /\ datasetSize \in 1..MaxDataset
    /\ save_every \in 0..MaxEvery
    /\ backup_every \in 0..MaxEvery
    /\ train_steps \in 0..MaxTrainSteps
    /\ n_gpus = 0
    /\ tts_eval_interval = DefaultEvalInterval
    /\ faults = {}
    /\ Idle

\* Any number of CUDA devices.
InitDevices ==
    /\ schedule \in Schedules
    /\ datasetSize \in 1..MaxDataset
    /\ save_every \in 0..MaxEvery
    /\ backup_every = 0
    /\ train_steps \in 0..MaxTrainSteps
    /\ n_gpus \in 0..MaxGpus
    /\ tts_eval_interval = DefaultEvalInterval
    /\ faults = {}
    /\ Idle

\* The inference driver alone: no training call is made.
InitSynth ==
    /\ schedule = <<[r |-> ScheduleR(1), lr |-> ScheduleLr(1), max_step |-> 1,
                     batch_size |-> 1]>>
    /\ datasetSize = 1
    /\ save_every = 0
    /\ backup_every = 0
    /\ train_steps = 0
    /\ n_gpus = 0
    /\ tts_eval_interval = DefaultEvalInterval
    /\ faults = {}
    /\ Idle

\* Both checkpoint cadences and an evaluation at every step, for the
\* statement-by-statement batch body; one item per minibatch.
InitBody ==
    /\ schedule \in {s \in Schedules : \A k \in DOMAIN s : s[k].batch_size = 1}
    /\ datasetSize \in 1..MaxDataset
    /\ save_every \in 0..MaxEvery
    /\ backup_every \in {0, 1}
    /\ train_steps = 0
    /\ n_gpus = 0
    /\ tts_eval_interval = 1
    /\ faults = {}
    /\ Idle

\* Any evaluation interval, gradient norms that may be NaN or infinite,
\* diagnostic exports that may fail; the latest checkpoint saved at every
\* step or never, no backups.
InitFaults ==
    /\ schedule \in Schedules
    /\ datasetSize \in 1..MaxDataset
    /\ save_every \in {0, 1}
    /\ backup_every = 0
    /\ train_steps \in 0..MaxTrainSteps
    /\ n_gpus = 0
    /\ tts_eval_interval \in EvalIntervals
    /\ faults = {"grad", "eval"}
    /\ Idle

(***************************************************************************)
(* Between two calls the weights file may get damaged.                     *)
(***************************************************************************)
Damage ==
    /\ pc = "idle"
    /\ runs < MaxRuns
    /\ latest.exists
    /\ ~latest.corrupt
    /\ latest' = [latest EXCEPT !.corrupt = TRUE]
    /\ UNCHANGED <<synthvars, interruptedAt, bodyvars, config,
                   force_restart, pc, outcome, model, optimizer,
                   backups, loopvars, runs, history>>

(***************************************************************************)
(* train(): entry, the batch size check, construction of the model and of  *)
(* the optimizer.                                                          *)
(***************************************************************************)
Train ==
    /\ pc = "idle"
    /\ runs < MaxRuns
    /\ \E force \in BOOLEAN : force_restart' = force
    /\ runs' = runs + 1
    /\ IF BatchSizeError(schedule, n_gpus)
       THEN /\ outcome' = "ValueError"
            /\ pc' = "idle"
            /\ UNCHANGED <<model, optimizer>>
       ELSE /\ outcome' = "running"
            /\ model' = [step |-> 0, params |-> 0, r |-> UnsetR]
            /\ optimizer' = [lr |-> DefaultLr, state |-> 0]
            /\ pc' = "load"
    /\ sess_i' = 1
    /\ batch_size' = 0
    /\ epochs' = 0
    /\ epoch' = 0
    /\ batch_i' = 0
    /\ startStep' = 0
    /\ restored' = NoFile
    /\ nbatches' = 0
    /\ lastBatch' = NoBatch
    /\ backupLog' = {}
    /\ lastLoop' = NoLoop
    /\ line' = "top"
    /\ grads' = NoGrads
    /\ ops' = <<>>
    /\ UNCHANGED <<synthvars, interruptedAt, config, latest, backups>>

(***************************************************************************)
(* Load the weights.                                                       *)
(***************************************************************************)
LoadWeights ==
    /\ pc = "load"
    /\ IF StartFresh(force_restart, latest.exists)
       THEN /\ latest' = ModelSave(model, optimizer, FALSE, 0)
            /\ startStep' = GetStep(model)
            /\ pc' = "session"
            /\ UNCHANGED <<model, optimizer, restored, outcome>>
       ELSE IF LoadFails(latest)
       THEN /\ outcome' = "LoadError"
            /\ pc' = "idle"
            /\ UNCHANGED <<model, optimizer, restored, latest, startStep>>
       ELSE /\ model' = ModelLoad(model, latest)
            /\ optimizer' = OptimizerLoad(optimizer, latest)
            /\ restored' = latest
            /\ startStep' = GetStep(model')
            /\ pc' = "session"
            /\ UNCHANGED <<latest, outcome>>
    /\ UNCHANGED <<synthvars, interruptedAt, bodyvars, config,
                   force_restart, backups, loopvars, runs, nbatches,
                   lastBatch, backupLog, lastLoop>>

(***************************************************************************)
(* The loop over hp.tts_schedule.                                          *)
(***************************************************************************)
\* Variant of the skip that assigns r and the learning rate before testing
\* whether the session is exhausted.
SessionSkipAssigning ==
    /\ pc = "session"
    /\ sess_i <= Len(schedule)
    /\ SessionExhausted(GetStep(model), schedule[sess_i].max_step)
    /\ ~IsLastSession(sess_i, schedule)
    /\ model' = [model EXCEPT !.r = schedule[sess_i].r]
    /\ optimizer' = [optimizer EXCEPT !.lr = schedule[sess_i].lr]
    /\ sess_i' = sess_i + 1
    /\ UNCHANGED <<synthvars, interruptedAt, bodyvars, config,
                   force_restart, pc, outcome, latest, backups,
                   batch_size, epochs, epoch, batch_i, runs, history>>

\* The current session is exhausted and another one follows: continue.
SessionSkip ==
    /\ pc = "session"
    /\ sess_i <= Len(schedule)
    /\ SessionExhausted(GetStep(model), schedule[sess_i].max_step)
    /\ ~IsLastSession(sess_i, schedule)
    /\ sess_i' = sess_i + 1
    /\ UNCHANGED <<synthvars, interruptedAt, bodyvars, config,
                   force_restart, pc, outcome, model, optimizer,
                   latest, backups, batch_size, epochs, epoch, batch_i, runs,
                   history>>

\* The current session is exhausted and it is the last one: break, return.
SessionBreak ==
    /\ pc = "session"
    /\ sess_i <= Len(schedule)
    /\ SessionExhausted(GetStep(model), schedule[sess_i].max_step)
    /\ IsLastSession(sess_i, schedule)
    /\ pc' = "idle"
    /\ outcome' = "returned"
    /\ UNCHANGED <<synthvars, interruptedAt, bodyvars, config,
                   force_restart, model, optimizer, latest, backups,
                   loopvars, runs, history>>

\* The session is not exhausted: set r and the learning rate, build the
\* DataLoader, compute the number of epochs, enter the first epoch.
SessionBegin ==
    /\ pc = "session"
    /\ sess_i <= Len(schedule)
    /\ ~SessionExhausted(GetStep(model), schedule[sess_i].max_step)
    /\ model' = [model EXCEPT !.r = schedule[sess_i].r]
    /\ optimizer' = [optimizer EXCEPT !.lr = schedule[sess_i].lr]
    /\ batch_size' = schedule[sess_i].batch_size
    /\ epochs' = Epochs(train_steps, datasetSize)
    /\ epoch' = 1
    /\ batch_i' = 1
    /\ pc' = "batch"
    /\ UNCHANGED <<synthvars, interruptedAt, bodyvars, config,
                   force_restart, outcome, latest, backups, sess_i,
                   runs, history>>

\* The schedule has no further session: train() returns.
ScheduleEnd ==
    /\ pc = "session"
    /\ sess_i > Len(schedule)
    /\ pc' = "idle"
    /\ outcome' = "returned"
    /\ UNCHANGED <<synthvars, interruptedAt, bodyvars, config,
                   force_restart, model, optimizer, latest, backups,
                   loopvars, runs, history>>

(***************************************************************************)
(* One minibatch: forward, backward, optimizer step, checkpoints.          *)
(***************************************************************************)
TrainBatch ==
    /\ pc = "batch"
    /\ line = "top"
    /\ batch_i <= LenDataLoader(datasetSize, batch_size)
    /\ \E g \in (IF "grad" \in faults THEN GradNorms ELSE {"finite"}) :
       \E exportOk \in (IF "eval" \in faults THEN BOOLEAN ELSE {TRUE}) :
       LET m1 == ApplyUpdate(Forward(model))
           o1 == OptimizerStep(optimizer)
           step == GetStep(m1)
           k == BackupTag(step)
           lenx == BatchLen(datasetSize, batch_size, batch_i)
           evaluated == EvalInBatchDue(tts_eval_interval, step)
                            /\ EvalCalls(lenx) > 0
       IN  /\ model' = m1
           /\ optimizer' = o1
           /\ IF BackupDue(backup_every, step)
              THEN /\ backups' = WriteFile(backups, k,
                                           ModelSave(m1, o1, TRUE, sess_i))
                   /\ backupLog' = backupLog \cup {<<k, step>>}
              ELSE UNCHANGED <<backups, backupLog>>
           /\ IF SaveDue(save_every, step)
              THEN latest' = ModelSave(m1, o1, TRUE, sess_i)
              ELSE UNCHANGED latest
           /\ lastBatch' = [valid |-> TRUE, startStep |-> GetStep(model),
                            sess |-> sess_i, r |-> model.r,
                            lr |-> optimizer.lr, batch_size |-> batch_size,
                            grad_norm |-> g, reported |-> GradNormReported(g),
                            paramsBefore |-> model.params]
           /\ lastLoop' = [kind |-> "batch", eval |-> evaluated,
                           failed |-> evaluated /\ ~exportOk]
           /\ IF evaluated /\ ~exportOk
              THEN /\ outcome' = "EvalError"
                   /\ pc' = "idle"
                   /\ ops' = SubSeq(BodyOrder, 1, Len(BodyOrder) - 1)
              ELSE /\ ops' = BodyOrder
                   /\ UNCHANGED <<outcome, pc>>
           /\ grads' = [state |-> IF ClipGradNormSet THEN "clipped"
                                  ELSE "computed",
                        norm |-> g]
    /\ line' = "top"
    /\ nbatches' = nbatches + 1
    /\ batch_i' = batch_i + 1
    /\ UNCHANGED <<synthvars, interruptedAt, config, force_restart, sess_i, batch_size, epochs, epoch,
                   runs, startStep, restored>>

\* The DataLoader is used up: end of the epoch, with its evaluation when
\* the interval asks for it.  The next epoch of range(1, epochs+1) starts,
\* or, after the last one, the schedule loop goes on to its next session.
EpochEnd ==
    /\ pc = "batch"
    /\ line = "top"
    /\ batch_i > LenDataLoader(datasetSize, batch_size)
    /\ \E exportOk \in (IF "eval" \in faults THEN BOOLEAN ELSE {TRUE}) :
       LET lenx == BatchLen(datasetSize, batch_size,
                            LenDataLoader(datasetSize, batch_size))
           evaluated == EvalAtEpochEnd(tts_eval_interval)
                            /\ EvalCalls(lenx) > 0
       IN  /\ lastLoop' = [kind |-> "epoch", eval |-> evaluated,
                           failed |-> evaluated /\ ~exportOk]
           /\ IF evaluated /\ ~exportOk
              THEN /\ outcome' = "EvalError"
                   /\ pc' = "idle"
                   /\ UNCHANGED <<epoch, batch_i, sess_i>>
              ELSE IF epoch < epochs
              THEN /\ epoch' = epoch + 1
                   /\ batch_i' = 1
                   /\ UNCHANGED <<pc, sess_i, outcome>>
              ELSE /\ sess_i' = sess_i + 1
                   /\ pc' = "session"
                   /\ UNCHANGED <<epoch, batch_i, outcome>>
    /\ UNCHANGED <<synthvars, interruptedAt, bodyvars, config,
                   force_restart, model, optimizer, latest, backups,
                   batch_size, epochs, runs, startStep, restored, nbatches,
                   lastBatch, backupLog>>

(***************************************************************************)
(* The batch body statement by statement, for what holds between its        *)
(* statements; TrainBatch above is their composition.  line names the      *)
(* statement to run next.                                                  *)
(***************************************************************************)
\* Statement name is done: go on to the one the body places after it.
Advance(name) == line' = NextLine(name) /\ ops' = Append(ops, name)

\* for i, (x, m, e) in enumerate(data_loader, 1): the next minibatch.
FetchBatch ==
    /\ pc = "batch"
    /\ line = "top"
    /\ batch_i <= LenDataLoader(datasetSize, batch_size)
    /\ line' = BodyOrder[1]
    /\ ops' = <<>>
    /\ UNCHANGED <<synthvars, interruptedAt, config, force_restart, pc, outcome,
                   model, optimizer, latest, backups, loopvars, runs, history,
                   grads>>

\* m1_hat, m2_hat, attention = model(x, m, e)
ForwardPass ==
    /\ pc = "batch"
    /\ line = "forward"
    /\ model' = Forward(model)
    /\ lastBatch' = [valid |-> TRUE, startStep |-> GetStep(model),
                     sess |-> sess_i, r |-> model.r, lr |-> optimizer.lr,
                     batch_size |-> batch_size, grad_norm |-> "finite",
                     reported |-> FALSE, paramsBefore |-> model.params]
    /\ Advance("forward")
    /\ UNCHANGED <<synthvars, interruptedAt, config, force_restart, pc, outcome,
                   optimizer, latest, backups, loopvars, runs, startStep,
                   restored, nbatches, backupLog, lastLoop, grads>>

\* loss = m1_loss + m2_loss
ComputeLoss ==
    /\ pc = "batch"
    /\ line = "loss"
    /\ Advance("loss")
    /\ UNCHANGED <<synthvars, interruptedAt, config, force_restart, pc, outcome,
                   model, optimizer, latest, backups, loopvars, runs, history,
                   grads>>

\* optimizer.zero_grad()
ZeroGrad ==
    /\ pc = "batch"
    /\ line = "zero_grad"
    /\ grads' = [state |-> "zero", norm |-> "finite"]
    /\ Advance("zero_grad")
    /\ UNCHANGED <<synthvars, interruptedAt, config, force_restart, pc, outcome,
                   model, optimizer, latest, backups, loopvars, runs, history>>

\* loss.backward()
Backward ==
    /\ pc = "batch"
    /\ line = "backward"
    /\ grads' = [state |-> "computed", norm |-> "finite"]
    /\ Advance("backward")
    /\ UNCHANGED <<synthvars, interruptedAt, config, force_restart, pc, outcome,
                   model, optimizer, latest, backups, loopvars, runs, history>>

\* if hp.tts_clip_grad_norm is not None: clip, and report a NaN norm.
ClipGradNorm ==
    /\ pc = "batch"
    /\ line = "clip_grad_norm"
    /\ IF ClipGradNormSet
       THEN \E g \in (IF "grad" \in faults THEN GradNorms ELSE {"finite"}) :
               /\ grads' = [state |-> "clipped", norm |-> g]
               /\ lastBatch' = [lastBatch EXCEPT
                                  !.grad_norm = g,
                                  !.reported = GradNormReported(g)]
               /\ Advance("clip_grad_norm")
       ELSE /\ line' = NextLine("clip_grad_norm")
            /\ UNCHANGED <<grads, lastBatch, ops>>
    /\ UNCHANGED <<synthvars, interruptedAt, config, force_restart, pc, outcome,
                   model, optimizer, latest, backups, loopvars, runs, startStep,
                   restored, nbatches, backupLog, lastLoop>>

\* optimizer.step()
StepOptimizer ==
    /\ pc = "batch"
    /\ line = "optimizer_step"
    /\ model' = ApplyUpdate(model)
    /\ optimizer' = OptimizerStep(optimizer)
    /\ Advance("optimizer_step")
    /\ UNCHANGED <<synthvars, interruptedAt, config, force_restart, pc, outcome,
                   latest, backups, loopvars, runs, history, grads>>

\* step = model.get_step(); the backup, when its cadence asks for one.
SaveBackup ==
    /\ pc = "batch"
    /\ line = "backup"
    /\ LET step == GetStep(model)
           k == BackupTag(step)
       IN  IF BackupDue(backup_every, step)
           THEN /\ backups' = WriteFile(backups, k,
                                        ModelSave(model, optimizer, TRUE,
                                                  sess_i))
                /\ backupLog' = backupLog \cup {<<k, step>>}
           ELSE UNCHANGED <<backups, backupLog>>
    /\ Advance("backup")
    /\ UNCHANGED <<synthvars, interruptedAt, config, force_restart, pc, outcome,
                   model, optimizer, latest, loopvars, runs, startStep,
                   restored, nbatches, lastBatch, lastLoop, grads>>

\* The latest checkpoint, when its cadence asks for one.
SaveLatest ==
    /\ pc = "batch"
    /\ line = "save"
    /\ IF SaveDue(save_every, GetStep(model))
       THEN latest' = ModelSave(model, optimizer, TRUE, sess_i)
       ELSE UNCHANGED latest
    /\ Advance("save")
    /\ UNCHANGED <<synthvars, interruptedAt, config, force_restart, pc, outcome,
                   model, optimizer, backups, loopvars, runs, history, grads>>

\* The evaluation inside the epoch, when the interval asks for one.
Evaluate ==
    /\ pc = "batch"
    /\ line = "eval"
    /\ \E exportOk \in (IF "eval" \in faults THEN BOOLEAN ELSE {TRUE}) :
       LET lenx == BatchLen(datasetSize, batch_size, batch_i)
           evaluated == EvalInBatchDue(tts_eval_interval, GetStep(model))
                            /\ EvalCalls(lenx) > 0
       IN  /\ lastLoop' = [kind |-> "batch", eval |-> evaluated,
                           failed |-> evaluated /\ ~exportOk]
           /\ IF evaluated /\ ~exportOk
              THEN /\ outcome' = "EvalError"
                   /\ pc' = "idle"
                   /\ UNCHANGED line
              ELSE /\ line' = NextLine("eval")
                   /\ UNCHANGED <<outcome, pc>>
    /\ ops' = Append(ops, "eval")
    /\ UNCHANGED <<synthvars, interruptedAt, config, force_restart, model,
                   optimizer, latest, backups, loopvars, runs, startStep,
                   restored, nbatches, lastBatch, backupLog, grads>>

\* stream(msg): the end of the body, on to the next minibatch.
LogProgress ==
    /\ pc = "batch"
    /\ line = "log"
    /\ nbatches' = nbatches + 1
    /\ batch_i' = batch_i + 1
    /\ Advance("log")
    /\ UNCHANGED <<synthvars, interruptedAt, config, force_restart, pc, outcome,
                   model, optimizer, latest, backups, sess_i, batch_size,
                   epochs, epoch, runs, startStep, restored, lastBatch,
                   backupLog, lastLoop, grads>>

\* The process is interrupted, between two statements of train().
Interrupt ==
    /\ pc # "idle"
    /\ pc' = "idle"
    /\ outcome' = "KeyboardInterrupt"
    /\ interruptedAt' = IF pc = "batch" /\ line # "top"
                        THEN "inside a batch" ELSE "between batches"
    /\ UNCHANGED <<synthvars, bodyvars, config, force_restart, model, optimizer,
                   latest, backups, loopvars, runs, history>>

BodyStep ==
    \/ FetchBatch
    \/ ForwardPass
    \/ ComputeLoss
    \/ ZeroGrad
    \/ Backward
    \/ ClipGradNorm
    \/ StepOptimizer
    \/ SaveBackup
    \/ SaveLatest
    \/ Evaluate
    \/ LogProgress

NextBody ==
    \/ Train
    \/ Interrupt
    \/ LoadWeights
    \/ SessionSkip
    \/ SessionBreak
    \/ SessionBegin
    \/ ScheduleEnd
    \/ BodyStep
    \/ EpochEnd

(***************************************************************************)
(* The inference driver.                                                   *)
(***************************************************************************)
\* Synthesizer.__init__: stores verbose and model_fpath, instantiates the
\* Tacotron model, loads the weights into it and puts it in eval mode.  The
\* low_mem argument is not stored.
Construct ==
    /\ ~synth.constructed
    /\ \E low \in BOOLEAN, k \in 1..ScheduleRows :
          synth' = [constructed |-> TRUE,
                    attrs |-> {"verbose", "model_fpath", "_model"},
                    model |-> "loaded", low_mem |-> low, r |-> ScheduleR(k),
                    loads |-> 0, requests |-> 0, last |-> NoCall]
    /\ UNCHANGED <<gen, trainvars>>

\* Synthesizer.load()
Load ==
    /\ synth.constructed
    /\ synth.loads + synth.requests < MaxCalls
    /\ LET out == LoadOutcome(synth)
       IN  synth' = [synth EXCEPT
                       !.loads = @ + 1,
                       !.model = IF out = "returned" THEN "loaded"
                                 ELSE IF "_low_mem" \in synth.attrs
                                         /\ ~synth.low_mem
                                 THEN "unloaded instance" ELSE @,
                       !.last = [op |-> "load", outcome |-> out, n |-> 0,
                                 nspecs |-> 0, alignments |-> FALSE]]
    /\ UNCHANGED <<gen, trainvars>>

\* Synthesizer.synthesize_spectrograms(texts, embeddings, return_alignments)
\* with n texts and n embeddings.
SynthesizeSpectrograms ==
    /\ synth.constructed
    /\ synth.loads + synth.requests < MaxCalls
    /\ \E n \in 0..MaxTexts, return_alignments \in BOOLEAN :
          LET out == SynthesizeOutcome(synth, n, return_alignments)
          IN  synth' = [synth EXCEPT
                          !.requests = @ + 1,
                          !.last = [op |-> "synthesize", outcome |-> out,
                                    n |-> n,
                                    nspecs |-> IF out = "returned" THEN n
                                               ELSE 0,
                                    alignments |-> out = "returned"
                                                   /\ return_alignments]]
    /\ UNCHANGED <<gen, trainvars>>

(***************************************************************************)
(* The generation loop of the loaded model, driven by a scripted decoder:  *)
(* script[k] is the largest value of the r frames emitted at step k.       *)
(***************************************************************************)
GenerateBegin ==
    /\ synth.constructed
    /\ IsLoaded(synth)
    /\ gen.state = "INITIAL"
    /\ \E limit \in 1..(2 * MaxDecoderSteps),
          script \in [1..MaxDecoderSteps -> GroupValues] :
          gen' = [state |-> "STEPPING", r |-> synth.r, max_frames |-> limit,
                  script |-> script, steps |-> 0, frames |-> 0]
    /\ UNCHANGED <<synth, trainvars>>

\* One decoder step: r frames are emitted, then the termination is tested.
GenerateStep ==
    /\ gen.state = "STEPPING"
    /\ gen.steps < MaxDecoderSteps
    /\ LET k == gen.steps + 1
           frames == gen.frames + gen.r
       IN  gen' = [gen EXCEPT
                     !.steps = k,
                     !.frames = frames,
                     !.state = IF GenerationEnds(gen.script[k], frames,
                                                 gen.max_frames)
                               THEN "STOPPED" ELSE "STEPPING"]
    /\ UNCHANGED <<synth, trainvars>>

NextSynth ==
    \/ Construct
    \/ Load
    \/ SynthesizeSpectrograms
    \/ GenerateBegin
    \/ GenerateStep

Step ==
    \/ LoadWeights
    \/ SessionSkip
    \/ SessionBreak
    \/ SessionBegin
    \/ ScheduleEnd
    \/ TrainBatch
    \/ EpochEnd

Next == Damage \/ Train \/ Step

Spec == Init /\ [][Next]_vars

\* train() runs in a single thread of control that is never suspended.
FairSpec == Spec /\ WF_vars(Step)

SpecDevices == InitDevices /\ [][Next]_vars

SpecFaults == InitFaults /\ [][Next]_vars

SpecSynth == InitSynth /\ [][NextSynth]_vars

SpecBody == InitBody /\ [][NextBody]_vars

(***************************************************************************)
(* Properties.                                                             *)
(***************************************************************************)
\* Index of the first schedule entry whose threshold exceeds step s
\* (0 when there is none).
FirstExceeding(s) ==
    LET ks == {k \in DOMAIN schedule : schedule[k].max_step > s}
    IN  IF ks = {} THEN 0 ELSE CHOOSE k \in ks : \A j \in ks : k <= j

LastThreshold == schedule[Len(schedule)].max_step

InTraining == pc \in {"session", "batch"}

Returned == pc = "idle" /\ outcome = "returned"

\* C1: every batch runs with the r, the learning rate and the batch size of
\* the first schedule entry whose threshold is strictly greater than the
\* model's step at the start of that batch.
C1_ActiveEntryAtEveryBatch ==
    lastBatch.valid =>
        LET k == FirstExceeding(lastBatch.startStep)
        IN  /\ k # 0
            /\ lastBatch.r = schedule[k].r
            /\ lastBatch.lr = schedule[k].lr
            /\ lastBatch.batch_size = schedule[k].batch_size

\* C2: no batch is trained under a session when the step counter before
\* that batch has already reached the session's max_step.
C2_NoBatchPastMaxStep ==
    lastBatch.valid =>
        lastBatch.startStep < schedule[lastBatch.sess].max_step

\* C3: the number of optimizer steps of one call of train() never exceeds
\* the caller's budget train_steps.
C3_StepBudgetRespected == nbatches <= train_steps

\* C4: entries whose threshold the starting step has reached are skipped
\* without touching model.r or the learning rate, and the first batch of a
\* call is trained under the first entry whose threshold exceeds the
\* starting step, with that entry's r and learning rate.
C4_FirstSessionOnResume ==
    /\ [](lastBatch.valid /\ nbatches = 1 =>
            /\ lastBatch.sess = FirstExceeding(startStep)
            /\ lastBatch.r = schedule[lastBatch.sess].r
            /\ lastBatch.lr = schedule[lastBatch.sess].lr
            /\ \A k \in 1..(lastBatch.sess - 1) :
                  schedule[k].max_step <= startStep)
    /\ [][pc = "session" /\ pc' = "session" /\ sess_i' # sess_i =>
            /\ schedule[sess_i].max_step <= model.step
            /\ model'.r = model.r
            /\ optimizer'.lr = optimizer.lr]_vars

\* The spec's example, scaled: a resumed call whose starting step lies
\* between the two thresholds has trained its first batch with the second row's r and lr.
C4_Witness ==
    /\ ~force_restart
    /\ restored.exists
    /\ Len(schedule) = 2
    /\ schedule[1].max_step <= startStep
    /\ startStep < schedule[2].max_step
    /\ nbatches = 1
    /\ lastBatch.sess = 2
    /\ lastBatch.r = 6
    /\ lastBatch.lr = 2
    /\ model.r = 6
    /\ optimizer.lr = 2

\* C5: a call whose starting step has reached the threshold of the last
\* schedule entry trains no batch (no forward pass, no optimizer step), and
\* every call of train() eventually returns.
C5_ExhaustedScheduleTerminates ==
    /\ []((InTraining \/ Returned) /\ startStep >= LastThreshold =>
            /\ nbatches = 0
            /\ model.step = startStep
            /\ model.params = restored.params
            /\ optimizer.state = restored.opt)
    /\ []<>(pc = "idle")

C5_Witness ==
    /\ Returned
    /\ restored.exists
    /\ startStep >= LastThreshold
    /\ startStep > 0

\* C6: a checkpoint written at step s while session i (reduction factor r)
\* was in effect makes a later non-forced call that restores it train its
\* first batch under session i with reduction factor r.
C6_ResumeAtSavedPosition ==
    (/\ lastBatch.valid
     /\ nbatches = 1
     /\ ~force_restart
     /\ restored.exists
     /\ restored.sess # 0)
    => (lastBatch.sess = restored.sess /\ lastBatch.r = restored.r)

\* C7: within one call, two backups written at different steps never go to
\* the same backup file name.
C7_BackupNeverOverwritten ==
    \A a, b \in backupLog : a[2] # b[2] => a[1] # b[1]

\* C8: after the weight-loading phase the latest checkpoint file exists; a
\* batch overwrites it exactly when the resulting step is a multiple of a
\* non-zero save_every, whatever backup_every is, and then it holds the
\* state after that batch; nothing else in the training loop changes it.
C8_LatestCadence ==
    /\ [](InTraining \/ Returned => latest.exists)
    /\ [][nbatches' = nbatches + 1 =>
            IF save_every # 0 /\ model'.step % save_every = 0
            THEN /\ latest'.exists
                 /\ latest'.step = model'.step
                 /\ latest'.params = model'.params
            ELSE latest' = latest]_vars
    /\ [][InTraining /\ nbatches' = nbatches => latest' = latest]_vars

C8_Witness ==
    /\ save_every = 2
    /\ backup_every = 1
    /\ nbatches = 3
    /\ DOMAIN backups # {}
    /\ latest.exists
    /\ latest.step = model.step - 1
    /\ latest.sess # 0

\* C9: every checkpoint file written by train(), latest or backup, holds
\* model parameters, optimizer state and step counter.
C9_CheckpointsHoldOptimizerState ==
    /\ latest.exists => latest.hasOpt
    /\ \A n \in DOMAIN backups : backups[n].hasOpt

\* C10: a trained batch increases the step counter by exactly one and
\* nothing else changes it during training; a non-forced call that finds a
\* checkpoint and loads it starts from the persisted step; during non-forced calls the
\* step stored in the latest checkpoint never decreases.
C10_StepCounterMonotone ==
    [][/\ nbatches' = nbatches + 1 => model'.step = model.step + 1
       /\ InTraining /\ nbatches' = nbatches => model'.step = model.step
       /\ pc = "load" /\ pc' = "session" /\ ~force_restart /\ latest.exists =>
             model'.step = latest.step /\ startStep' = latest.step
       /\ ~force_restart' /\ latest.exists =>
             latest'.exists /\ latest'.step >= latest.step]_vars

C10_Witness ==
    /\ ~force_restart
    /\ restored.exists
    /\ restored.step > 0
    /\ nbatches > 0
    /\ latest.step > restored.step

\* C11: with force_restart, or without a weights file, training starts from
\* fresh initialization (step 0); without force_restart and with a readable
\* file, parameters, optimizer state and step are those of the file; with an
\* unreadable file the load error ends the call and no batch is trained.
C11_StartupPolicy ==
    /\ [][pc = "load" =>
            IF force_restart \/ ~latest.exists
            THEN /\ pc' = "session"
                 /\ model'.step = 0
                 /\ model'.params = 0
                 /\ optimizer'.state = 0
                 /\ startStep' = 0
            ELSE IF latest.corrupt
            THEN /\ pc' = "idle"
                 /\ outcome' = "LoadError"
                 /\ latest' = latest
            ELSE /\ pc' = "session"
                 /\ model'.step = latest.step
                 /\ model'.params = latest.params
                 /\ optimizer'.state = latest.opt
                 /\ startStep' = latest.step]_vars
    /\ [](outcome = "LoadError" => pc = "idle" /\ nbatches = 0)

C11_Witness ==
    /\ outcome = "LoadError"
    /\ ~force_restart
    /\ latest.corrupt
    /\ latest.hasOpt
    /\ latest.step > 0

\* C12: when the gradient norm of a batch is NaN, it is logged and the
\* optimizer step is skipped: the parameters after the batch are those
\* before it.
C12_NaNSkipsOptimizerStep ==
    lastBatch.valid /\ lastBatch.grad_norm = "nan" =>
        lastBatch.reported /\ model.params = lastBatch.paramsBefore

\* C13: when the gradient norm of a batch is NaN or infinite, the event is
\* reported and the loop goes on.
C13_NonFiniteNormReported ==
    lastBatch.valid /\ lastBatch.grad_norm \in {"nan", "inf"} =>
        /\ lastBatch.reported
        /\ lastLoop.kind = "batch" /\ ~lastLoop.failed => pc = "batch"

C16_EvalFailureRecovered ==
    lastLoop.failed => outcome \in {"running", "returned"}

\* C20: as documented in hparams.py, an interval of -1 evaluates after each
\* completed epoch, an interval of 0 disables evaluation, and a positive
\* interval N evaluates every N steps.
C20_DocumentedEvalInterval ==
    /\ tts_eval_interval = 0 => ~lastLoop.eval
    /\ lastLoop.kind = "epoch" /\ tts_eval_interval = -1 => lastLoop.eval
    /\ lastLoop.kind = "batch" /\ tts_eval_interval > 0 =>
          (lastLoop.eval <=> model.step % tts_eval_interval = 0)

TypeOK ==
    /\ schedule \in Schedules
    /\ pc \in {"idle", "load", "session", "batch"}
    /\ outcome \in {"none", "running", "returned", "ValueError", "LoadError",
                    "EvalError", "KeyboardInterrupt"}
    /\ line \in {"top"} \cup {BodyOrder[n] : n \in DOMAIN BodyOrder}
    /\ grads.state \in {"none", "zero", "computed", "clipped"}
    /\ model.step \in Nat
    /\ runs \in 0..MaxRuns
    /\ synth.model \in {"none", "loaded", "unloaded instance"}
    /\ synth.loads + synth.requests \in 0..MaxCalls
    /\ gen.state \in {"INITIAL", "STEPPING", "STOPPED"}
    /\ gen.steps \in 0..MaxDecoderSteps

\* C17: synthesize_spectrograms, called on a synthesizer constructed in normal
\* (non-low-memory) mode with N texts and N embeddings, returns exactly N mel
\* spectrograms, and the alignments as well when return_alignments is set.
C17_OneSpectrogramPerText ==
    synth.last.op = "synthesize" /\ ~synth.low_mem =>
        /\ synth.last.outcome = "returned"
        /\ synth.last.nspecs = synth.last.n

\* C19: a synthesizer is not loaded after construction, before load() or the
\* first synthesis request; it is loaded after either, and stays loaded.
C19_LazyLoading ==
    synth.constructed =>
        (IsLoaded(synth) <=> synth.loads + synth.requests > 0)

Returns == pc # "idle" /\ pc' = "idle" /\ outcome' = "returned"

StatedOrder ==
    <<"forward", "loss", "zero_grad", "backward", "clip_grad_norm",
      "optimizer_step", "backup", "save", "eval", "log">>

\* C21: the statements of a batch run in the order forward, loss, zero
\* gradients, backpropagation, gradient-norm clipping, optimizer step, and
\* then the checkpoints, the evaluation and the log; during training the
\* parameters change only in the optimizer step, which finds freshly clipped
\* gradients and updates once, so a completed batch has had exactly one
\* update; outside it only the construction of the model and the loading of
\* the weights set the parameters.
C21_OneOptimizerStepPerBatch ==
    /\ [](\E n \in 0..Len(StatedOrder) : ops = SubSeq(StatedOrder, 1, n))
    /\ [][model'.params # model.params =>
            \/ pc \in {"idle", "load"}
            \/ /\ pc = "batch"
               /\ line = "optimizer_step"
               /\ ops = SubSeq(StatedOrder, 1, 5)
               /\ grads.state = "clipped"
               /\ model'.params = model.params + 1]_vars
    /\ [][nbatches' = nbatches + 1 =>
            model.params = lastBatch.paramsBefore + 1]_vars

\* The second batch of a call, right after its optimizer step.
C21_Witness ==
    /\ pc = "batch"
    /\ nbatches = 1
    /\ line = "backup"
    /\ ops = SubSeq(StatedOrder, 1, 6)
    /\ model.params = lastBatch.paramsBefore + 1

\* The step counter of a checkpoint file equals the number of optimizer
\* steps applied to the parameters it stores.
FileConsistent(f) == f.exists => f.step = f.params

====
